---- MODULE Spec2Model ----
(***************************************************************************)
(* Model of mslc (minecraft-server-launcher-core): the configuration       *)
(* builder MinecraftServerBuilder, its build(), and MinecraftServer::run() *)
(* with the three stream-forwarding threads, as written in src/src/lib.rs. *)
(*                                                                         *)
(* Two specifications:                                                     *)
(*   SpecBuild : any sequence of setter calls on a builder, then build().  *)
(*   SpecRun   : one call of run() on a MinecraftServer value, with the    *)
(*               child process and the parent's standard input as the      *)
(*               environment.  FairSpecRun adds the scheduling fairness.   *)
(***************************************************************************)
EXTENDS Integers, Sequences, FiniteSets, TLC

(***************************************************************************)
(* Bounds of the model.                                                    *)
(***************************************************************************)
\* longest java_args slice handed to the java_args setter / MinecraftServer::new
MaxArgs == 2
\* number of bytes the parent's standard input holds
MaxIn == 3
\* number of chunks the child writes to its standard output and error together
MaxOut == 2
\* number of bytes a pipe holds: a write that does not fit blocks the writer
PipeCap == 2

(***************************************************************************)
(* Values.  Option<T>: None is the empty sequence, Some(x) is <<x>>.       *)
(***************************************************************************)
None == <<>>
Some(x) == <<x>>
is_none(o) == o = None
unwrap(o) == o[1]

\* the strings a caller passes (the second path does not exist on the machine)
ServerPaths == {"/tmp/server", "/home/orzmiku/mcserver/"}
ServerJars == {"server.jar"}
JavaPaths == {"java", "invalid_java_path"}
JavaArgs == {"-Xmx1024M", "-Xms1024M"}

\* the environment: the directories that exist, the interpreters that start
ExistingDirs == {"/tmp/server"}
RunnableInterpreters == {"java"}

SeqsUpTo(S, n) == UNION {[1..k -> S] : k \in 0..n}
ArgSlices == SeqsUpTo(JavaArgs, MaxArgs)

\* bytes of the streams: a text byte, the line terminator, a byte that is
\* not valid UTF-8
LF == "\n"
CR == "\r"
BAD == "0xFF"
Bytes == {"a", LF, BAD}

VARIABLES
    builder,      \* the MinecraftServerBuilder value (five Option fields)
    called,       \* history: the names of the setters called on the builder
    lastArg,      \* history: the argument of the last call of each setter
    result,       \* what build() returned, NotBuilt before the call
    server,       \* the MinecraftServer value run() is called on
    oslog,        \* the requests made to the operating system, in order
    runPc,        \* where the thread executing run() is
    outPc,        \* where stdout_thread is
    errPc,        \* where stderr_thread is
    inPc,         \* where stdin_thread is
    child,        \* the child process: none, alive, exited
    outPipe,      \* bytes in the child's stdout pipe, not yet read
    errPipe,      \* bytes in the child's stderr pipe, not yet read
    outBuf,       \* bytes stdout_thread's BufReader has read, not yet a returned line
    errBuf,       \* bytes stderr_thread's BufReader has read, not yet a returned line
    outSent,      \* history: every byte the child wrote to its stdout
    errSent,      \* history: every byte the child wrote to its stderr
    written,      \* number of chunks the child has written so far
    quota,        \* number of chunks the child's program writes at most
    parentOut,    \* the parent's standard output: one entry per println!
    parentErr,    \* the parent's standard error: one entry per eprintln!
    pstdin,       \* unread bytes of the parent's standard input
    stdinEof,     \* whether end-of-input follows those bytes (else a read blocks)
    input,        \* the String `input` of the stdin_thread loop body
    wbuf,         \* the BufWriter's buffer
    childStdin,   \* the writes received by the child's stdin pipe, in order
    stdinOpen,    \* whether the write end of the child's stdin pipe is open
    consumed      \* history: bytes read_line took from the parent's stdin

bvars == <<builder, called, lastArg, result>>
rvars == <<server, runPc, outPc, errPc, inPc, child, outPipe, errPipe, outBuf,
           errBuf, outSent, errSent, written, quota,
           parentOut, parentErr, pstdin, stdinEof, input, wbuf, childStdin,
           stdinOpen, consumed>>
vars == <<bvars, rvars, oslog>>

(***************************************************************************)
(* MinecraftServerBuilder                                                  *)
(***************************************************************************)
MinecraftServerBuilder_new_gui_on ==
    [server_path |-> None,
     server_jar  |-> None,
     java_path   |-> Some("java"),
     java_args   |-> None,
     gui         |-> Some(TRUE)]

MinecraftServerBuilder_new_no_java_path ==
    [server_path |-> None,
     server_jar  |-> None,
     java_path   |-> None,
     java_args   |-> None,
     gui         |-> Some(FALSE)]

MinecraftServerBuilder_new ==
    [server_path |-> None,
     server_jar  |-> None,
     java_path   |-> Some("java"),
     java_args   |-> None,
     gui         |-> Some(FALSE)]

server_jar_clobbers_path(self, jar) ==
    [self EXCEPT !.server_jar = Some(jar), !.server_path = Some(jar)]

server_path(self, path) == [self EXCEPT !.server_path = Some(path)]
server_jar(self, jar)   == [self EXCEPT !.server_jar = Some(jar)]
java_path(self, path)   == [self EXCEPT !.java_path = Some(path)]
java_args(self, args)   == [self EXCEPT !.java_args = Some(args)]
gui(self, g)            == [self EXCEPT !.gui = Some(g)]

Ok(v)  == [tag |-> "Ok", val |-> v]
Err(e) == [tag |-> "Err", val |-> e]
Panic  == [tag |-> "Panic", val |-> <<"unwrap on None">>]
NotBuilt == [tag |-> "NotBuilt", val |-> <<>>]

\* the variants of MinecraftServerBuildError
MissingServerPath == <<"MissingServerPath">>
MissingServerJar  == <<"MissingServerJar">>

unwrap_or_default(o) == IF is_none(o) THEN <<>> ELSE unwrap(o)
unwrap_or(o, d) == IF is_none(o) THEN d ELSE unwrap(o)

build_skips_jar_check(self) ==
    IF is_none(self.server_path) THEN Err(MissingServerPath)
    ELSE IF is_none(self.server_jar) \/ is_none(self.java_path) THEN Panic
    ELSE Ok([server_path |-> unwrap(self.server_path),
             server_jar  |-> unwrap(self.server_jar),
             java_path   |-> unwrap(self.java_path),
             java_args   |-> unwrap_or_default(self.java_args),
             gui         |-> unwrap_or(self.gui, FALSE)])

build(self) ==
    IF is_none(self.server_path) THEN Err(MissingServerPath)
    ELSE IF is_none(self.server_jar) THEN Err(MissingServerJar)
    ELSE IF is_none(self.java_path) THEN Panic
    ELSE Ok([server_path |-> unwrap(self.server_path),
             server_jar  |-> unwrap(self.server_jar),
             java_path   |-> unwrap(self.java_path),
             java_args   |-> unwrap_or_default(self.java_args),
             gui         |-> unwrap_or(self.gui, FALSE)])

(***************************************************************************)
(* MinecraftServer                                                         *)
(***************************************************************************)
MinecraftServer_new(sp, jar, jp, args, g) ==
    [server_path |-> sp,
     server_jar  |-> jar,
     java_path   |-> jp,
     java_args   |-> args,
     gui         |-> g]

NoServer == MinecraftServer_new("", "", "", <<>>, FALSE)

get_command_args_last(self) ==
    [program     |-> self.java_path,
     args        |-> <<"-jar", self.server_jar>> \o self.java_args
                       \o <<IF self.gui THEN "--gui" ELSE "--nogui">>,
     current_dir |-> self.server_path]

get_command(self) ==
    [program     |-> self.java_path,
     args        |-> self.java_args \o <<"-jar", self.server_jar>>
                       \o <<IF self.gui THEN "--gui" ELSE "--nogui">>,
     current_dir |-> self.server_path]


(***************************************************************************)
(* Lines of a byte stream, as BufRead::read_line / BufRead::lines see them *)
(***************************************************************************)
HasLF(s) == \E i \in 1..Len(s) : s[i] = LF
FirstLF(s) == CHOOSE i \in 1..Len(s) : s[i] = LF /\ \A j \in 1..(i-1) : s[j] # LF
\* the bytes one read_line call takes: up to and including the first LF, or
\* everything that is left when end-of-input comes first
read_until(s) == IF HasLF(s) THEN SubSeq(s, 1, FirstLF(s)) ELSE s
after_line(s) == SubSeq(s, Len(read_until(s)) + 1, Len(s))
from_utf8_ok(s) == \A i \in 1..Len(s) : s[i] # BAD
\* lines() removes the terminator: a final LF, and a CR before it
strip_newline(s) ==
    IF Len(s) > 0 /\ s[Len(s)] = LF
    THEN IF Len(s) > 1 /\ s[Len(s)-1] = CR
         THEN SubSeq(s, 1, Len(s)-2)
         ELSE SubSeq(s, 1, Len(s)-1)
    ELSE s

(***************************************************************************)
(* The state of the parts a specification does not exercise                *)
(***************************************************************************)
RunIdle(srv, bytes, eof, chunks) ==
    /\ server = srv
    /\ oslog = <<>>
    /\ runPc = "call"
    /\ outPc = "unstarted"
    /\ errPc = "unstarted"
    /\ inPc = "unstarted"
    /\ child = "none"
    /\ outPipe = <<>>
    /\ errPipe = <<>>
    /\ outBuf = <<>>
    /\ errBuf = <<>>
    /\ outSent = <<>>
    /\ errSent = <<>>
    /\ written = 0
    /\ quota = chunks
    /\ parentOut = <<>>
    /\ parentErr = <<>>
    /\ pstdin = bytes
    /\ stdinEof = eof
    /\ input = <<>>
    /\ wbuf = <<>>
    /\ childStdin = <<>>
    /\ stdinOpen = FALSE
    /\ consumed = <<>>

(***************************************************************************)
(* SpecBuild: the builder                                                  *)
(***************************************************************************)
NoArgs == [server_path |-> "", server_jar |-> "", java_path |-> "",
           java_args |-> <<>>, gui |-> FALSE]

InitBuild ==
    /\ builder = MinecraftServerBuilder_new
    /\ called = {}
    /\ lastArg = NoArgs
    /\ result = NotBuilt
    /\ RunIdle(NoServer, <<>>, FALSE, 0)

CallServerPath ==
    /\ result = NotBuilt
    /\ \E path \in ServerPaths :
          /\ builder' = server_path(builder, path)
          /\ lastArg' = [lastArg EXCEPT !.server_path = path]
    /\ called' = called \cup {"server_path"}
    /\ UNCHANGED <<result, rvars, oslog>>

CallServerJar ==
    /\ result = NotBuilt
    /\ \E jar \in ServerJars :
          /\ builder' = server_jar(builder, jar)
          /\ lastArg' = [lastArg EXCEPT !.server_jar = jar]
    /\ called' = called \cup {"server_jar"}
    /\ UNCHANGED <<result, rvars, oslog>>

CallJavaPath ==
    /\ result = NotBuilt
    /\ \E path \in JavaPaths :
          /\ builder' = java_path(builder, path)
          /\ lastArg' = [lastArg EXCEPT !.java_path = path]
    /\ called' = called \cup {"java_path"}
    /\ UNCHANGED <<result, rvars, oslog>>

CallJavaArgs ==
    /\ result = NotBuilt
    /\ \E args \in ArgSlices :
          /\ builder' = java_args(builder, args)
          /\ lastArg' = [lastArg EXCEPT !.java_args = args]
    /\ called' = called \cup {"java_args"}
    /\ UNCHANGED <<result, rvars, oslog>>

CallGui ==
    /\ result = NotBuilt
    /\ \E g \in BOOLEAN :
          /\ builder' = gui(builder, g)
          /\ lastArg' = [lastArg EXCEPT !.gui = g]
    /\ called' = called \cup {"gui"}
    /\ UNCHANGED <<result, rvars, oslog>>

\* a build() that looks at the directory before the presence checks
CallBuild_probing ==
    /\ result = NotBuilt
    /\ result' = build(builder)
    /\ oslog' = Append(oslog, [call |-> "metadata", path |-> builder.server_path])
    /\ UNCHANGED <<builder, called, lastArg, rvars>>

\* build() consumes the builder: no setter can follow it.  It asks the
\* operating system nothing.
CallBuild ==
    /\ result = NotBuilt
    /\ result' = build(builder)
    /\ UNCHANGED <<builder, called, lastArg, rvars, oslog>>

NextBuild ==
    \/ CallServerPath
    \/ CallServerJar
    \/ CallJavaPath
    \/ CallJavaArgs
    \/ CallGui
    \/ CallBuild

SpecBuild == InitBuild /\ [][NextBuild]_vars


(***************************************************************************)
(* SpecRun: MinecraftServer::run()                                         *)
(***************************************************************************)
\* the java_args of the MinecraftServer values run() is called on
RunArgSlices == {<<>>, <<"-Xmx1024M", "-Xms1024M">>}
\* what the child writes in one go: a line, a line that is not UTF-8, and
\* text with no terminator
OutChunks == {<<"a", LF>>, <<BAD, LF>>, <<"b">>}

\* run() is called on any MinecraftServer value while the parent's standard
\* input is silent and the child writes up to MaxOut chunks, and on the
\* documented one with any standard input and a child that writes at most
\* one chunk
InitRun ==
    /\ builder = MinecraftServerBuilder_new
    /\ called = {}
    /\ lastArg = NoArgs
    /\ result = NotBuilt
    /\ \/ \E sp \in ServerPaths, jar \in ServerJars, jp \in JavaPaths,
             args \in RunArgSlices, g \in BOOLEAN :
               RunIdle(MinecraftServer_new(sp, jar, jp, args, g), <<>>, FALSE,
                       MaxOut)
       \/ \E bytes \in SeqsUpTo(Bytes, MaxIn), eof \in BOOLEAN :
               RunIdle(MinecraftServer_new("/tmp/server", "server.jar", "java",
                                           <<>>, FALSE), bytes, eof, 1)

\* Command::spawn succeeds when the program can be started in the directory
spawn_ok(cmd) ==
    cmd.program \in RunnableInterpreters /\ cmd.current_dir \in ExistingDirs

\* lines 159-168: get_command(), the three Stdio::piped(), spawn().unwrap()
\* and the three take().unwrap()
RunSpawn ==
    /\ runPc = "call"
    /\ LET cmd == get_command(server)
           ok == spawn_ok(cmd)
       IN /\ oslog' = Append(oslog, [call |-> "spawn", command |-> cmd,
                                     stdio |-> "piped", ok |-> ok])
          /\ child' = IF ok THEN "alive" ELSE child
          /\ stdinOpen' = ok
          /\ runPc' = IF ok THEN "spawn_stdout_thread" ELSE "panicked"
    /\ UNCHANGED <<bvars, server, outPc, errPc, inPc, outPipe, errPipe, written,
                   parentOut, parentErr, pstdin, stdinEof, input, wbuf,
                   childStdin, consumed,
                   outBuf, outSent, errBuf, errSent, quota>>

\* line 170
SpawnStdoutThread ==
    /\ runPc = "spawn_stdout_thread"
    /\ outPc' = "lines"
    /\ runPc' = "spawn_stderr_thread"
    /\ UNCHANGED <<bvars, oslog, server, errPc, inPc, child, outPipe, errPipe,
                   written, parentOut, parentErr, pstdin, stdinEof, input, wbuf,
                   childStdin, stdinOpen, consumed,
                   outBuf, outSent, errBuf, errSent, quota>>

\* line 180
SpawnStderrThread ==
    /\ runPc = "spawn_stderr_thread"
    /\ errPc' = "lines"
    /\ runPc' = "spawn_stdin_thread"
    /\ UNCHANGED <<bvars, oslog, server, outPc, inPc, child, outPipe, errPipe,
                   written, parentOut, parentErr, pstdin, stdinEof, input, wbuf,
                   childStdin, stdinOpen, consumed,
                   outBuf, outSent, errBuf, errSent, quota>>

\* line 190
SpawnStdinThread ==
    /\ runPc = "spawn_stdin_thread"
    /\ inPc' = "read_line"
    /\ runPc' = "join_stdout"
    /\ UNCHANGED <<bvars, oslog, server, outPc, errPc, child, outPipe, errPipe,
                   written, parentOut, parentErr, pstdin, stdinEof, input, wbuf,
                   childStdin, stdinOpen, consumed,
                   outBuf, outSent, errBuf, errSent, quota>>

\* line 200: join() returns Err when the thread panicked, and unwrap() panics
JoinStdout ==
    /\ runPc = "join_stdout"
    /\ outPc \in {"done", "panicked"}
    /\ runPc' = IF outPc = "done" THEN "join_stderr" ELSE "panicked"
    /\ UNCHANGED <<bvars, oslog, server, outPc, errPc, inPc, child, outPipe,
                   errPipe, written, parentOut, parentErr, pstdin, stdinEof,
                   input, wbuf, childStdin, stdinOpen, consumed,
                   outBuf, outSent, errBuf, errSent, quota>>

\* line 201
JoinStderr ==
    /\ runPc = "join_stderr"
    /\ errPc \in {"done", "panicked"}
    /\ runPc' = IF errPc = "done" THEN "join_stdin" ELSE "panicked"
    /\ UNCHANGED <<bvars, oslog, server, outPc, errPc, inPc, child, outPipe,
                   errPipe, written, parentOut, parentErr, pstdin, stdinEof,
                   input, wbuf, childStdin, stdinOpen, consumed,
                   outBuf, outSent, errBuf, errSent, quota>>

\* line 202: stdin_thread.join() returns once the thread has ended, whatever
\* the child does; unwrap panics when the thread panicked
JoinStdin ==
    /\ runPc = "join_stdin"
    /\ inPc \in {"done", "panicked"}
    /\ runPc' = IF inPc = "panicked" THEN "panicked" ELSE "wait"
    /\ UNCHANGED <<bvars, oslog, server, outPc, errPc, inPc, child, outPipe,
                   errPipe, written, parentOut, parentErr, pstdin, stdinEof,
                   input, wbuf, childStdin, stdinOpen, consumed,
                   outBuf, outSent, errBuf, errSent, quota>>

\* lines 203-204: server.wait() blocks until the child has exited
Wait ==
    /\ runPc = "wait"
    /\ child = "exited"
    /\ runPc' = "returned_ok"
    /\ oslog' = Append(oslog, [call |-> "wait"])
    /\ UNCHANGED <<bvars, server, outPc, errPc, inPc, child, outPipe,
                   errPipe, written, parentOut, parentErr, pstdin, stdinEof,
                   input, wbuf, childStdin, stdinOpen, consumed,
                   outBuf, outSent, errBuf, errSent, quota>>

\* lines 202-204, two blocking calls one after the other: the join, then
\* with the thread ended normally the wait
JoinStdinAndWait == IF runPc = "wait" THEN Wait ELSE JoinStdin

(***************************************************************************)
(* stdout_thread and stderr_thread, lines 170-188                          *)
(***************************************************************************)
\* BufRead::lines serves a line from the bytes already read; without a whole
\* line there it reads the pipe, which blocks until the pipe holds bytes or
\* is at end-of-stream (the child has exited and the pipe is empty); at
\* end-of-stream the bytes left are the last line
must_read(buf) == ~ HasLF(buf)
at_eof(pipe) == pipe = <<>> /\ child = "exited"
line_ready(buf, pipe) == HasLF(buf) \/ (at_eof(pipe) /\ buf # <<>>)
println(line) == line \o <<LF>>
ErrorReadingStdout == <<"Error reading stdout">>
ErrorReadingStderr == <<"Error reading stderr">>

\* one read of the pipe takes every byte it holds
StdoutFill ==
    /\ outPc = "lines"
    /\ must_read(outBuf)
    /\ outPipe # <<>>
    /\ outBuf' = outBuf \o outPipe
    /\ outPipe' = <<>>
    /\ UNCHANGED <<bvars, oslog, server, runPc, outPc, errPc, inPc, child,
                   errPipe, errBuf, outSent, errSent, written, parentOut,
                   parentErr, pstdin, stdinEof, input, wbuf, childStdin,
                   stdinOpen, consumed, quota>>

\* lines 172-177: one iteration of the for loop; after an Err item the loop
\* goes on with the next line
\* a loop body that loses the line after the one it prints
StdoutLine_drops_line ==
    /\ outPc = "lines"
    /\ line_ready(outBuf, outPipe)
    /\ outBuf' = after_line(after_line(outBuf))
    /\ parentOut' = Append(parentOut, println(strip_newline(read_until(outBuf))))
    /\ UNCHANGED <<bvars, oslog, server, runPc, outPc, errPc, inPc, child,
                   outPipe, errPipe, errBuf, outSent, errSent, written, pstdin,
                   stdinEof, input, wbuf, childStdin, stdinOpen, consumed,
                   quota, parentErr>>

StdoutLine ==
    /\ outPc = "lines"
    /\ line_ready(outBuf, outPipe)
    /\ LET got == read_until(outBuf)
       IN /\ outBuf' = after_line(outBuf)
          /\ IF from_utf8_ok(got)
             THEN /\ parentOut' = Append(parentOut, println(strip_newline(got)))
                  /\ UNCHANGED parentErr
             ELSE /\ parentErr' = Append(parentErr, println(ErrorReadingStdout))
                  /\ UNCHANGED parentOut
    /\ UNCHANGED <<bvars, oslog, server, runPc, outPc, errPc, inPc, child,
                   outPipe, errPipe, errBuf, outSent, errSent, written, pstdin,
                   stdinEof, input, wbuf, childStdin, stdinOpen, consumed, quota>>

StdoutEof ==
    /\ outPc = "lines"
    /\ outBuf = <<>>
    /\ at_eof(outPipe)
    /\ outPc' = "done"
    /\ UNCHANGED <<bvars, oslog, server, runPc, errPc, inPc, child, outPipe,
                   errPipe, outBuf, errBuf, outSent, errSent, written,
                   parentOut, parentErr, pstdin, stdinEof, input, wbuf,
                   childStdin, stdinOpen, consumed, quota>>

\* a forwarder that reads stderr only once stdout has ended
StderrFill_after_stdout ==
    /\ errPc = "lines"
    /\ outPc = "done"
    /\ must_read(errBuf)
    /\ errPipe # <<>>
    /\ errBuf' = errBuf \o errPipe
    /\ errPipe' = <<>>
    /\ UNCHANGED <<bvars, oslog, server, runPc, outPc, errPc, inPc, child,
                   outPipe, outBuf, outSent, errSent, written, parentOut,
                   parentErr, pstdin, stdinEof, input, wbuf, childStdin,
                   stdinOpen, consumed, quota>>

StderrFill ==
    /\ errPc = "lines"
    /\ must_read(errBuf)
    /\ errPipe # <<>>
    /\ errBuf' = errBuf \o errPipe
    /\ errPipe' = <<>>
    /\ UNCHANGED <<bvars, oslog, server, runPc, outPc, errPc, inPc, child,
                   outPipe, outBuf, outSent, errSent, written, parentOut,
                   parentErr, pstdin, stdinEof, input, wbuf, childStdin,
                   stdinOpen, consumed, quota>>

\* lines 182-187
StderrLine ==
    /\ errPc = "lines"
    /\ line_ready(errBuf, errPipe)
    /\ LET got == read_until(errBuf)
       IN /\ errBuf' = after_line(errBuf)
          /\ parentErr' = Append(parentErr,
                 IF from_utf8_ok(got) THEN println(strip_newline(got))
                 ELSE println(ErrorReadingStderr))
    /\ UNCHANGED <<bvars, oslog, server, runPc, outPc, errPc, inPc, child,
                   outPipe, errPipe, outBuf, outSent, errSent, written,
                   parentOut, pstdin, stdinEof, input, wbuf, childStdin,
                   stdinOpen, consumed, quota>>

StderrEof ==
    /\ errPc = "lines"
    /\ errBuf = <<>>
    /\ at_eof(errPipe)
    /\ errPc' = "done"
    /\ UNCHANGED <<bvars, oslog, server, runPc, outPc, inPc, child, outPipe,
                   errPipe, outBuf, errBuf, outSent, errSent, written,
                   parentOut, parentErr, pstdin, stdinEof, input, wbuf,
                   childStdin, stdinOpen, consumed, quota>>

(***************************************************************************)
(* stdin_thread, lines 190-198                                             *)
(***************************************************************************)
write_all_twice(buf, data) == buf \o data \o data

\* BufWriter::write_all of data that fits the buffer (the lines here are far
\* shorter than its capacity) only copies it into the buffer
write_all(buf, data) == buf \o data

flush_ok_while_child_alive(buf) == child = "alive"

\* BufWriter::flush: an empty buffer is flushed without any write to the
\* pipe, so without any error; otherwise the buffer is written to the pipe,
\* which fails (broken pipe) once the child has exited
flush_writes(buf) == buf # <<>>
flush_ok(buf) == ~ flush_writes(buf) \/ child = "alive"

\* a loop that leaves when read_line returns no bytes
StdinReadLine_break_at_eof ==
    /\ inPc = "read_line"
    /\ HasLF(pstdin) \/ stdinEof
    /\ LET got == read_until(pstdin)
       IN /\ pstdin' = after_line(pstdin)
          /\ consumed' = consumed \o got
          /\ input' = got
          /\ IF got = <<>>
             THEN /\ inPc' = "done"
                  /\ stdinOpen' = FALSE
                  /\ UNCHANGED wbuf
             ELSE /\ inPc' = IF from_utf8_ok(got) THEN "flush" ELSE "panicked"
                  /\ stdinOpen' = from_utf8_ok(got)
                  /\ wbuf' = IF from_utf8_ok(got) THEN write_all(wbuf, got)
                             ELSE wbuf
    /\ UNCHANGED <<bvars, oslog, server, runPc, outPc, errPc, child, outPipe,
                   errPipe, written, parentOut, parentErr, stdinEof,
                   childStdin, outBuf, outSent, errBuf, errSent, quota>>

\* lines 193-195: read_line blocks until the parent's stdin holds a whole
\* line or is at end-of-input (then it returns what is left, possibly
\* nothing); bytes that are not UTF-8 make it return Err, and unwrap()
\* panics.  The panic drops the BufWriter and with it the write end of the
\* pipe.  The line read is copied into the BufWriter.
StdinReadLine ==
    /\ inPc = "read_line"
    /\ HasLF(pstdin) \/ stdinEof
    /\ LET got == read_until(pstdin)
       IN /\ pstdin' = after_line(pstdin)
          /\ consumed' = consumed \o got
          /\ IF from_utf8_ok(got)
             THEN /\ input' = got
                  /\ wbuf' = write_all(wbuf, got)
                  /\ inPc' = "flush"
                  /\ UNCHANGED stdinOpen
             ELSE /\ input' = <<>>
                  /\ inPc' = "panicked"
                  /\ stdinOpen' = FALSE
                  /\ UNCHANGED wbuf
    /\ UNCHANGED <<bvars, oslog, server, runPc, outPc, errPc, child, outPipe,
                   errPipe, written, parentOut, parentErr, stdinEof,
                   childStdin,
                   outBuf, outSent, errBuf, errSent, quota>>

\* line 196: flush().unwrap(), then the next iteration
StdinFlush ==
    /\ inPc = "flush"
    /\ IF flush_ok(wbuf)
       THEN /\ childStdin' = IF flush_writes(wbuf) THEN Append(childStdin, wbuf)
                             ELSE childStdin
            /\ wbuf' = <<>>
            /\ inPc' = "read_line"
            /\ UNCHANGED stdinOpen
       ELSE /\ inPc' = "panicked"
            /\ wbuf' = <<>>
            /\ stdinOpen' = FALSE
            /\ UNCHANGED childStdin
    /\ UNCHANGED <<bvars, oslog, server, runPc, outPc, errPc, child, outPipe,
                   errPipe, written, parentOut, parentErr, pstdin, stdinEof,
                   input, consumed,
                   outBuf, outSent, errBuf, errSent, quota>>

(***************************************************************************)
(* The child process (the environment)                                     *)
(***************************************************************************)
\* a write blocks while the pipe has no room for the whole chunk
pipe_has_room(pipe, chunk) == Len(pipe) + Len(chunk) <= PipeCap

ChildWriteStdout ==
    /\ child = "alive"
    /\ written < quota
    /\ \E chunk \in OutChunks :
          /\ pipe_has_room(outPipe, chunk)
          /\ outPipe' = outPipe \o chunk
          /\ outSent' = outSent \o chunk
    /\ written' = written + 1
    /\ UNCHANGED <<bvars, oslog, server, runPc, outPc, errPc, inPc, child,
                   errPipe, outBuf, errBuf, errSent, parentOut, parentErr,
                   pstdin, stdinEof, input, wbuf, childStdin, stdinOpen,
                   consumed, quota>>

ChildWriteStderr ==
    /\ child = "alive"
    /\ written < quota
    /\ \E chunk \in OutChunks :
          /\ pipe_has_room(errPipe, chunk)
          /\ errPipe' = errPipe \o chunk
          /\ errSent' = errSent \o chunk
    /\ written' = written + 1
    /\ UNCHANGED <<bvars, oslog, server, runPc, outPc, errPc, inPc, child,
                   outPipe, outBuf, errBuf, outSent, parentOut, parentErr,
                   pstdin, stdinEof, input, wbuf, childStdin, stdinOpen,
                   consumed, quota>>

\* exiting closes the child's ends of the three pipes
ChildExit ==
    /\ child = "alive"
    /\ child' = "exited"
    /\ UNCHANGED <<bvars, oslog, server, runPc, outPc, errPc, inPc, outPipe,
                   errPipe, written, parentOut, parentErr, pstdin, stdinEof,
                   input, wbuf, childStdin, stdinOpen, consumed,
                   outBuf, outSent, errBuf, errSent, quota>>

NextRun ==
    \/ RunSpawn
    \/ SpawnStdoutThread
    \/ SpawnStderrThread
    \/ SpawnStdinThread
    \/ JoinStdout
    \/ JoinStderr
    \/ JoinStdinAndWait
    \/ StdoutFill
    \/ StdoutLine
    \/ StdoutEof
    \/ StderrFill
    \/ StderrLine
    \/ StderrEof
    \/ StdinReadLine
    \/ StdinFlush
    \/ ChildWriteStdout
    \/ ChildWriteStderr
    \/ ChildExit

SpecRun == InitRun /\ [][NextRun]_vars


\* the steps of each thread; at most one step of a thread is enabled at a time
RunThread ==
    \/ RunSpawn
    \/ SpawnStdoutThread
    \/ SpawnStderrThread
    \/ SpawnStdinThread
    \/ JoinStdout
    \/ JoinStderr
    \/ JoinStdinAndWait
StdoutThread == StdoutFill \/ StdoutLine \/ StdoutEof
StderrThread == StderrFill \/ StderrLine \/ StderrEof
StdinThread == StdinReadLine \/ StdinFlush

\* the threads are scheduled by the operating system: a thread that can take
\* a step eventually takes it.  Nothing is assumed of the child or of the
\* parent's standard input.
FairSpecRun ==
    /\ SpecRun
    /\ WF_vars(RunThread)
    /\ WF_vars(StdoutThread)
    /\ WF_vars(StderrThread)
    /\ WF_vars(StdinThread)

(***************************************************************************)
(* Properties of build()                                                   *)
(***************************************************************************)
Built == result.tag # "NotBuilt"
FailedWith(e) == result.tag = "Err" /\ result.val = e
NeverSet(setter) == setter \notin called

\* C1: when server_path was never set, whatever the other fields are, build()
\* fails with MissingServerPath and has asked the operating system nothing
\* (no filesystem check, no interpreter probe).
C1_MissingServerPath ==
    (Built /\ NeverSet("server_path"))
        => (FailedWith(MissingServerPath) /\ oslog = <<>>)

C1_Witness ==
    /\ Built
    /\ NeverSet("server_path")
    /\ called = {"server_jar", "java_path", "java_args", "gui"}
    /\ FailedWith(MissingServerPath)

\* C2 as stated: whenever server_jar was never set, build() fails with
\* MissingServerJar.
C2_Original ==
    (Built /\ NeverSet("server_jar")) => FailedWith(MissingServerJar)

\* C2 amended: when server_jar was never set and server_path was set,
\* build() fails with MissingServerJar.
C2_MissingServerJar ==
    (Built /\ NeverSet("server_jar") /\ ~ NeverSet("server_path"))
        => FailedWith(MissingServerJar)

C2_Witness ==
    /\ Built
    /\ NeverSet("server_jar")
    /\ builder.server_path = Some("/tmp/server")
    /\ FailedWith(MissingServerJar)

\* C3: when the working directory is set to a path that does not exist (and
\* the artifact is set), build() fails with InvalidWorkingDirectory carrying
\* that path and returns no configuration.
C3_InvalidWorkingDirectory ==
    (/\ Built
     /\ ~ is_none(builder.server_path)
     /\ ~ is_none(builder.server_jar)
     /\ unwrap(builder.server_path) \notin ExistingDirs)
        => FailedWith(<<"InvalidWorkingDirectory", unwrap(builder.server_path)>>)

\* C4: when the interpreter path does not start (working directory and
\* artifact set, the directory existing), build() fails with
\* InvalidInterpreterPath carrying that path.
C4_InvalidInterpreterPath ==
    (/\ Built
     /\ ~ is_none(builder.server_path)
     /\ ~ is_none(builder.server_jar)
     /\ unwrap(builder.server_path) \in ExistingDirs
     /\ ~ is_none(builder.java_path)
     /\ unwrap(builder.java_path) \notin RunnableInterpreters)
        => FailedWith(<<"InvalidInterpreterPath", unwrap(builder.java_path)>>)

\* the checks of the specification's finalize(), in its order: the error of
\* the first one that fails, or no error
FirstFailingCheck(b) ==
    IF is_none(b.server_path) THEN <<"MissingServerPath">>
    ELSE IF is_none(b.server_jar) THEN <<"MissingServerJar">>
    ELSE IF unwrap(b.server_path) \notin ExistingDirs
      THEN <<"InvalidWorkingDirectory", unwrap(b.server_path)>>
    ELSE IF unwrap(b.java_path) \notin RunnableInterpreters
      THEN <<"InvalidInterpreterPath", unwrap(b.java_path)>>
    ELSE <<>>

\* C5: build() checks working-directory presence, artifact presence,
\* working-directory existence and the interpreter probe in that order and
\* stops at the first failure: the error returned is that of the earliest
\* failing check, and a presence failure is returned before anything is
\* asked of the operating system.
C5_CheckOrder ==
    Built =>
        /\ IF FirstFailingCheck(builder) = <<>>
           THEN result.tag = "Ok"
           ELSE FailedWith(FirstFailingCheck(builder))
        /\ Len(FirstFailingCheck(builder)) = 1 => oslog = <<>>

\* the bit that makes run() pass the no-GUI token to the child
PassesNoGui(srv) ==
    \E i \in DOMAIN get_command(srv).args : get_command(srv).args[i] = "--nogui"

DefaultsUntouched == called \cap {"java_path", "java_args", "gui"} = {}

\* C7 as stated: a configuration built with java_path, java_args and gui
\* never set has interpreter "java", no arguments, and is not headless
\* (run() does not pass the no-GUI token).
C7_Original ==
    (result.tag = "Ok" /\ DefaultsUntouched)
        => /\ result.val.java_path = "java"
           /\ result.val.java_args = <<>>
           /\ ~ PassesNoGui(result.val)

\* C7 amended: such a configuration has interpreter "java", no arguments and
\* gui = false, which is the headless case: run() passes --nogui.
C7_Defaults ==
    (result.tag = "Ok" /\ DefaultsUntouched)
        => /\ result.val.java_path = "java"
           /\ result.val.java_args = <<>>
           /\ result.val.gui = FALSE
           /\ PassesNoGui(result.val)

C7_Witness ==
    /\ result.tag = "Ok"
    /\ DefaultsUntouched
    /\ called = {"server_path", "server_jar"}
    /\ get_command(result.val).args = <<"-jar", "server.jar", "--nogui">>

(***************************************************************************)
(* Properties of run()                                                     *)
(***************************************************************************)
SpawnCalls == {i \in DOMAIN oslog : oslog[i].call = "spawn"}

\* C6 as stated: the command handed to the operating system is the
\* interpreter path, the extra arguments in order, -jar, the artifact, then
\* --nogui if and only if the configuration is headless (gui = false) and
\* nothing otherwise, run in the configured directory.
C6_Original ==
    \A i \in SpawnCalls :
        /\ oslog[i].command.program = server.java_path
        /\ oslog[i].command.args =
              server.java_args \o <<"-jar", server.server_jar>>
                  \o (IF ~ server.gui THEN <<"--nogui">> ELSE <<>>)
        /\ oslog[i].command.current_dir = server.server_path

\* C6 amended: ... then --nogui when the configuration is headless
\* (gui = false) and --gui when it is not.  In particular java, no extra
\* arguments, server.jar, headless, /tmp/server gives
\* java -jar server.jar --nogui run in /tmp/server.
C6_CommandLine ==
    \A i \in SpawnCalls :
        /\ oslog[i].command.program = server.java_path
        /\ oslog[i].command.args =
              server.java_args \o <<"-jar", server.server_jar>>
                  \o (IF ~ server.gui THEN <<"--nogui">> ELSE <<"--gui">>)
        /\ oslog[i].command.current_dir = server.server_path
        /\ server = MinecraftServer_new("/tmp/server", "server.jar", "java",
                                        <<>>, FALSE)
             => oslog[i].command =
                    [program |-> "java",
                     args |-> <<"-jar", "server.jar", "--nogui">>,
                     current_dir |-> "/tmp/server"]

C6_Witness ==
    /\ SpawnCalls # {}
    /\ server.gui
    /\ server.java_args = <<"-Xmx1024M", "-Xms1024M">>
    /\ child = "alive"

\* C8: every run() whose child exits eventually returns normally.
C8_RunReturns == (child = "exited") ~> (runPc = "returned_ok")

\* C9: when the operating system fails to spawn the child, run() returns an
\* I/O error to its caller (no panic) and no forwarder thread is started.
C9_SpawnFailureReturned ==
    \A i \in SpawnCalls :
        ~ oslog[i].ok =>
            /\ runPc = "returned_err"
            /\ outPc = "unstarted" /\ errPc = "unstarted" /\ inPc = "unstarted"

\* the lines of a byte sequence: each ends with its LF, the last one may
\* have none
RECURSIVE Lines(_)
Lines(s) ==
    IF s = <<>> THEN <<>>
    ELSE IF HasLF(s)
         THEN <<SubSeq(s, 1, FirstLF(s))>> \o Lines(SubSeq(s, FirstLF(s) + 1, Len(s)))
         ELSE <<s>>

\* C10: the writes the child's stdin pipe has received are exactly the lines
\* read from the parent's stdin so far, one write per line, in order; the
\* line just read is the only one not yet written, and nothing is left in
\* the buffer when the next line is read.
C10_StdinForwarded ==
    /\ inPc = "read_line" => (childStdin = Lines(consumed) /\ wbuf = <<>>)
    /\ inPc = "flush" =>
          childStdin \o (IF wbuf = <<>> THEN <<>> ELSE <<wbuf>>) = Lines(consumed)

C10_Witness ==
    /\ inPc = "read_line"
    /\ child = "alive"
    /\ childStdin = << <<"a", LF>>, <<LF>> >>


(***************************************************************************)
(* Properties of the builder                                               *)
(***************************************************************************)
BuildErrors == {MissingServerPath, MissingServerJar}

\* C12: in every builder state reachable from new() by setter calls the
\* java_path field is set, and build() returns Ok(configuration) or one of
\* the enumerated errors: it never panics on an unwrap.
C12_BuildNeverPanics ==
    /\ ~ is_none(builder.java_path)
    /\ build(builder).tag \in {"Ok", "Err"}
    /\ Built =>
          /\ result.tag \in {"Ok", "Err"}
          /\ result.tag = "Err" => result.val \in BuildErrors

C12_Witness ==
    /\ result.tag = "Ok"
    /\ "java_path" \in called
    /\ result.val.java_path = "invalid_java_path"

Setters == {"server_path", "server_jar", "java_path", "java_args", "gui"}

\* C14: after any sequence of setter calls each field holds the argument of
\* the last call of its own setter, or its initial value when that setter
\* was never called; a setter validates nothing, asks the operating system
\* nothing and leaves the builder unbuilt.
C14_SettersFrame ==
    /\ \A f \in Setters :
          builder[f] = IF f \in called THEN Some(lastArg[f])
                       ELSE MinecraftServerBuilder_new[f]
    /\ ~ Built => oslog = <<>>

C14_Witness ==
    /\ ~ Built
    /\ called = Setters
    /\ builder.server_path = Some("/home/orzmiku/mcserver/")
    /\ builder.java_path = Some("invalid_java_path")
    /\ builder.java_args = Some(<<"-Xms1024M", "-Xmx1024M">>)
    /\ builder.gui = Some(TRUE)


(***************************************************************************)
(* Properties of the forwarders                                            *)
(***************************************************************************)
IsPrefix(p, q) == Len(p) <= Len(q) /\ SubSeq(q, 1, Len(p)) = p
\* what a forwarder prints for the text lines of a byte sequence, in order
Emitted(sent) ==
    LET ls == SelectSeq(Lines(sent), from_utf8_ok)
    IN [i \in 1..Len(ls) |-> println(strip_newline(ls[i]))]
IsForwardedLine(e) ==
    e \notin {println(ErrorReadingStdout), println(ErrorReadingStderr)}
StderrLines == SelectSeq(parentErr, IsForwardedLine)

\* C11: what stdout_thread has printed is always a prefix of the child's
\* text lines in the order written; once the child has closed the stream
\* every thread step leads to the loop's end, and there the output is
\* exactly those lines.  The same for stderr_thread and the parent's stderr.
C11_OutputForwarded ==
    /\ [](IsPrefix(parentOut, Emitted(outSent)))
    /\ [](IsPrefix(StderrLines, Emitted(errSent)))
    /\ [](outPc = "done" => parentOut = Emitted(outSent))
    /\ [](errPc = "done" => StderrLines = Emitted(errSent))
    /\ (child = "exited") ~> (outPc = "done" /\ errPc = "done")

C11_Witness ==
    /\ outPc = "done"
    /\ outSent = <<"a", LF, "b">>
    /\ parentOut = << <<"a", LF>>, <<"b", LF>> >>


Ended(pc) == pc \in {"done", "panicked"}
WaitCalls == {i \in DOMAIN oslog : oslog[i].call = "wait"}
SpawnSucceeded == \E i \in SpawnCalls : oslog[i].ok

StdoutErrorReported ==
    \E i \in DOMAIN parentErr : parentErr[i] = println(ErrorReadingStdout)
StderrErrorReported ==
    \E i \in DOMAIN parentErr : parentErr[i] = println(ErrorReadingStderr)

\* C16: once stdout_thread has reported a read error it performs no further
\* read: it takes nothing more from the pipe or from the bytes already read
\* (symmetrically for stderr_thread).
C16_StopsAtReadError ==
    [][/\ StdoutErrorReported => (outBuf' = outBuf /\ Len(outPipe') >= Len(outPipe))
       /\ StderrErrorReported => (errBuf' = errBuf /\ Len(errPipe') >= Len(errPipe))
      ]_vars

\* C17: a failure inside a forwarder (a read error of an output forwarder, a
\* failed read, write or flush of the stdin forwarder) does not make run()
\* panic or fail, and leaves the sibling forwarders running.
C17_FailureEndsOnlyForwarder ==
    (StdoutErrorReported \/ StderrErrorReported \/ inPc = "panicked")
        => runPc \notin {"panicked", "returned_err"}

IsTextLine(l) == HasLF(l) /\ from_utf8_ok(l)
\* the number of complete text lines in the bytes written to a stream
TextLinesWritten(sent) == Len(SelectSeq(Lines(sent), IsTextLine))

\* C18: whatever the child writes and however it interleaves the two
\* streams, each pipe is emptied again and again, so a write blocked on a
\* full pipe is not blocked forever, and each forwarder catches up again
\* and again with the text lines written to its stream, so every line
\* written is eventually forwarded, also while the stdin forwarder is
\* blocked reading the parent's standard input.
C18_OutputDrained ==
    /\ []<>(outPipe = <<>>)
    /\ []<>(errPipe = <<>>)
    /\ []<>(Len(parentOut) >= TextLinesWritten(outSent))
    /\ []<>(Len(StderrLines) >= TextLinesWritten(errSent))

C18_Witness ==
    /\ child = "alive"
    /\ Len(outSent) > PipeCap
    /\ Len(outPipe) = PipeCap
    /\ inPc = "read_line" /\ pstdin = <<>> /\ ~ stdinEof

\* C19: the stdin forwarder never ends normally, only by a panic; once the
\* child has been spawned run() never returns Ok(()) and never reaches
\* wait(): it is blocked in a join or has panicked, and when it has
\* panicked it is because the stdin forwarder did.
C19_RunNeverReturns ==
    /\ inPc # "done"
    /\ runPc \notin {"wait", "returned_ok"}
    /\ WaitCalls = {}
    /\ (SpawnSucceeded /\ runPc = "panicked") => inPc = "panicked"

C19_Witness ==
    /\ SpawnSucceeded
    /\ runPc = "panicked"
    /\ inPc = "panicked"
    /\ child = "exited"
    /\ Len(childStdin) = 1

\* C20: at end-of-input of the parent's stdin the stdin forwarder goes on:
\* the iteration that read zero bytes has an empty buffer and its flush
\* returns to the top of the loop without writing to the pipe or closing
\* it, whether the child is alive or not; the write end of the child's
\* stdin stays open as long as the thread is alive.
C20_StdinLoopsAtEof ==
    /\ inPc \in {"read_line", "flush"} => stdinOpen
    /\ inPc # "done"
    /\ (inPc = "flush" /\ input = <<>>) =>
          /\ wbuf = <<>>
          /\ ENABLED (StdinFlush /\ inPc' = "read_line" /\ stdinOpen'
                        /\ childStdin' = childStdin)
    /\ (inPc = "read_line" /\ pstdin = <<>> /\ stdinEof)
          => ENABLED (StdinReadLine /\ inPc' = "flush" /\ input' = <<>>)

C20_Witness ==
    /\ inPc = "read_line"
    /\ input = <<>>
    /\ consumed = <<"a", LF>>
    /\ pstdin = <<>> /\ stdinEof
    /\ child = "exited"
    /\ stdinOpen

====
